---- MODULE Spec2Model ----
(***************************************************************************)
(* Model of romanisim/cr.py: the inverse-transform sampler construction    *)
(* (create_sampler), the pixel traversal (traverse) and the cosmic-ray     *)
(* injection loop (simulate_crs).                                          *)
(*                                                                         *)
(* Numbers.  Pixel coordinates are exact fixed-point numbers: the integer  *)
(* x stands for x / Scale pixels.  Inputs lie on the half-pixel lattice    *)
(* and Scale is a multiple of every coordinate difference that the         *)
(* traversal divides by, so every crossing the code computes (i0 + k,      *)
(* j0 + k*dj/di, ...) is represented exactly; np.unique and np.floor then  *)
(* act on exact values.  A length is a fixed-point number too, the square  *)
(* root rounded down to 1 / Scale pixel.                                   *)
(***************************************************************************)
EXTENDS Integers, Sequences, FiniteSets

VARIABLES
    trail_start, trail_end, N_i, N_j,   \* arguments of a traverse call
    result,                             \* what the traverse call returned / raised
    result_swapped,                     \* the same for the call with the endpoints swapped
    pdf_y, sampler,                     \* create_sampler: pdf(x) on the grid, outcome
    image, im1, flux, time,             \* simulate_crs: arguments and the copy it takes
    N_samples, todo,                    \* drawn event count, events still to loop over
    calls,                              \* simulate_crs calls made so far
    ev, trail, draws,                   \* loop locals: event, traverse result, Poisson array
    pc                                  \* position of the running call

vars == <<trail_start, trail_end, N_i, N_j, result, result_swapped, pdf_y, sampler,
          image, im1, flux, time, N_samples, todo, calls, ev, trail, draws, pc>>

(***************************************************************************)
(* Bounds of the model.                                                    *)
(***************************************************************************)
GridN == 3         \* detector size handed to traverse in SpecTraverse
MaxDraw == 1       \* largest value a Poisson draw takes in the model
MaxEvents == 2     \* largest event count N_samples drawn for one call
MaxCalls == 2      \* simulate_crs calls in one behaviour
ImgN_i == 3        \* rows of the image handed to simulate_crs
ImgN_j == 2        \* columns of the image handed to simulate_crs
MaxDisp == 4       \* largest trail displacement per axis, in half pixels
MaxY == 2          \* largest density value on the sampler grid
GridLen == 4       \* number of points of the sampler grid

(***************************************************************************)
(* Program constants.                                                      *)
(***************************************************************************)
DefaultN == 4096   \* traverse(..., N_i=4096, N_j=4096)
DefaultFlux == 8   \* simulate_crs(..., flux=8, ...)
AreaMilli == 168   \* area=0.168 cm^2, in thousandths
PixelDepth == 5    \* pixel_depth=5
PixelSize == 10    \* pixel_size=10
GainTenths == 38   \* gain=3.8, in tenths
Min_dEdx == 10     \* min_dEdx=10
Min_cr_len == 10   \* min_cr_len=10
DebugI == 54       \* the pixel of the leftover breakpoint
DebugJ == 76

(***************************************************************************)
(* Fixed-point arithmetic.                                                 *)
(***************************************************************************)
Abs(x) == IF x < 0 THEN -x ELSE x
Sign(x) == IF x > 0 THEN 1 ELSE IF x < 0 THEN -1 ELSE 0
Max(a, b) == IF a >= b THEN a ELSE b
Min(a, b) == IF a <= b THEN a ELSE b

RECURSIVE Gcd(_, _)
Gcd(a, b) == IF b = 0 THEN a ELSE Gcd(b, a % b)

RECURSIVE LcmUpTo(_)
LcmUpTo(n) == IF n <= 1 THEN 1 ELSE LET l == LcmUpTo(n - 1) IN (l * n) \div Gcd(l, n)

\* Largest coordinate difference of the inputs, in half pixels.
MaxDiff == 2 * Max(GridN + 1, Max(ImgN_i, ImgN_j))
Scale == 2 * LcmUpTo(MaxDiff)
Half == Scale \div 2

\* np.floor of a coordinate, as a pixel index.
Floor(x) == x \div Scale

RECURSIVE SqrtBetween(_, _, _)
SqrtBetween(n, lo, hi) ==
    IF lo >= hi THEN lo
    ELSE LET mid == (lo + hi + 1) \div 2
         IN IF mid * mid <= n THEN SqrtBetween(n, mid, hi)
                              ELSE SqrtBetween(n, lo, mid - 1)

\* x ** 0.5 for x a sum of squares of fixed-point numbers.
Sqrt(n) == SqrtBetween(n, 0, 46340)

\* ((d ** 2).sum() ** 0.5) of one row d = <<d_i, d_j>>.
Norm(d) == Sqrt(d[1] * d[1] + d[2] * d[2])

\* np.isclose(x, 0): |x| <= 1e-8.  Nonzero fixed-point values are at least
\* 1 / Scale, far above the tolerance.
IsClose0(x) == x = 0

(***************************************************************************)
(* traverse(trail_start, trail_end, N_i, N_j).  A point is <<i, j>>.       *)
(***************************************************************************)
\* "increase in i-direction": <<(i0, j0), (i1, j1)>>.
Endpoints(s, e) == IF s[1] < e[1] THEN <<s, e>> ELSE <<e, s>>

\* Rows i0 + k, j0 + k * dj / di for k = 0 .. floor(|di|); the start alone if di = 0.
CrossI(p0, di, dj) ==
    IF di # 0
    THEN [n \in 1..(Abs(di) \div Scale + 1) |->
            <<p0[1] + Sign(di) * (n - 1) * Scale,
              p0[2] + Sign(di) * (n - 1) * ((Scale * dj) \div di)>>]
    ELSE <<p0>>

\* Rows i0 + k * di / dj, j0 + k for k = 0 .. floor(|dj|), stepping with the
\* sign of dj; the start alone if dj = 0.
CrossJ(p0, di, dj) ==
    IF dj # 0
    THEN [n \in 1..(Abs(dj) \div Scale + 1) |->
            <<p0[1] + (n - 1) * ((Scale * di) \div Abs(dj)),
              p0[2] + Sign(dj) * (n - 1) * Scale>>]
    ELSE <<p0>>

RowLess(p, q) == p[1] < q[1] \/ (p[1] = q[1] /\ p[2] < q[2])

RECURSIVE SortRows(_)
SortRows(S) ==
    IF S = {} THEN <<>>
    ELSE LET m == CHOOSE p \in S : \A q \in S : p = q \/ RowLess(p, q)
         IN <<m>> \o SortRows(S \ {m})

\* np.unique(rows, axis=0): the distinct rows in lexicographic order (this
\* subsumes the argsort on the i column made just before it).
Unique(rows) == SortRows({rows[n] : n \in 1..Len(rows)})

Outside(p, Ni, Nj) ==
    p[1] < 0 \/ p[1] > Ni * Scale \/ p[2] < 0 \/ p[2] > Nj * Scale

Crossings(s, e, Ni, Nj) ==
    LET p0 == Endpoints(s, e)[1]
        p1 == Endpoints(s, e)[2]
        di == p1[1] - p0[1]
        dj == p1[2] - p0[2]
        all == Unique(CrossI(p0, di, dj) \o CrossJ(p0, di, dj))
    IN SelectSeq(all, LAMBDA p : ~Outside(p, Ni, Nj))

\* np.diff(crossings, axis=0)
Diff(c) == [n \in 1..(Len(c) - 1) |-> <<c[n + 1][1] - c[n][1], c[n + 1][2] - c[n][2]>>]

Lengths(diffs) == [n \in 1..Len(diffs) |-> Norm(diffs[n])]

\* The outcome of a call: status "ok" with the three returned arrays, or the
\* exception raised at the return statement when `lengths` was never bound
\* (then ii and jj are the locals as they stand at the raise).
traverse(s, e, Ni, Nj) ==
    LET p0 == Endpoints(s, e)[1]
        p1 == Endpoints(s, e)[2]
        di == p1[1] - p0[1]
        dj == p1[2] - p0[2]
        c == Crossings(s, e, Ni, Nj)
        pix == [n \in 1..Len(c) |-> <<Floor(c[n][1]), Floor(c[n][2])>>]
        ii == [n \in 1..Len(c) |-> pix[n][1]]
        jj == [n \in 1..Len(c) |-> pix[n][2]]
    IN IF Len(c) > 1
       THEN LET last == c[Len(c)]
                last_diff == <<last[1] - Floor(last[1]) * Scale,
                               last[2] - Floor(last[2]) * Scale>>
            IN IF IsClose0(last_diff[1]) /\ IsClose0(last_diff[2])
               THEN [status |-> "UnboundLocalError",
                     ii |-> SubSeq(ii, 1, Len(c) - 1),
                     jj |-> SubSeq(jj, 1, Len(c) - 1),
                     lengths |-> <<>>]
               ELSE [status |-> "ok", ii |-> ii, jj |-> jj,
                     lengths |-> Lengths(Append(Diff(c), last_diff))]
       ELSE [status |-> "ok", ii |-> ii, jj |-> jj,
             lengths |-> <<Sqrt(di * di + dj * dj)>>]

(***************************************************************************)
(* Inputs of the traversal specification.                                  *)
(***************************************************************************)
\* Half-pixel lattice from half a pixel below 0 to half a pixel above GridN.
Lattice == {k * Half : k \in -1..(2 * GridN + 1)}
LatticePoints == Lattice \X Lattice

\* The documented axis-aligned example: (2.0, 3.5) -> (2.0, 7.5).
ExampleStart == <<4 * Half, 7 * Half>>
ExampleEnd == <<4 * Half, 15 * Half>>

NoResult == [status |-> "none", ii |-> <<>>, jj |-> <<>>, lengths |-> <<>>]
NoSampler == [status |-> "none", cdf_y |-> <<>>]

IdleSampler == pdf_y = <<>> /\ sampler = NoSampler
IdleTraverse ==
    /\ trail_start = <<0, 0>> /\ trail_end = <<0, 0>>
    /\ N_i = DefaultN /\ N_j = DefaultN
    /\ result = NoResult /\ result_swapped = NoResult
IdleImage ==
    /\ image = <<>> /\ im1 = <<>> /\ flux = 0 /\ time = 0
    /\ N_samples = 0 /\ todo = 0 /\ calls = 0
    /\ ev = <<>> /\ trail = NoResult /\ draws = <<>>

InitTraverse ==
    /\ \/ /\ trail_start \in LatticePoints
          /\ trail_end \in LatticePoints
          /\ N_i \in {GridN, DefaultN}
          /\ N_j = N_i
       \/ /\ \E p \in {<<ExampleStart, ExampleEnd>>, <<ExampleEnd, ExampleStart>>} :
                trail_start = p[1] /\ trail_end = p[2]
          /\ N_i = DefaultN
          /\ N_j = DefaultN
    /\ result = NoResult
    /\ result_swapped = NoResult
    /\ pc = "call"
    /\ IdleSampler
    /\ IdleImage

\* traverse(trail_start, trail_end, N_i, N_j)
Traverse ==
    /\ pc = "call"
    /\ result' = traverse(trail_start, trail_end, N_i, N_j)
    /\ pc' = "done"
    /\ UNCHANGED <<trail_start, trail_end, N_i, N_j, result_swapped, pdf_y, sampler,
                   image, im1, flux, time, N_samples, todo, calls, ev, trail, draws>>

\* traverse(trail_end, trail_start, N_i, N_j)
TraverseSwapped ==
    /\ pc = "done"
    /\ result_swapped' = traverse(trail_end, trail_start, N_i, N_j)
    /\ pc' = "both"
    /\ UNCHANGED <<trail_start, trail_end, N_i, N_j, result, pdf_y, sampler,
                   image, im1, flux, time, N_samples, todo, calls, ev, trail, draws>>

NextTraverse == Traverse \/ TraverseSwapped

SpecTraverse == InitTraverse /\ [][NextTraverse]_vars

(***************************************************************************)
(* Claims about traverse, checked under SpecTraverse.                      *)
(***************************************************************************)
RECURSIVE SeqSum(_)
SeqSum(q) == IF q = <<>> THEN 0 ELSE Head(q) + SeqSum(Tail(q))

Called == pc \in {"done", "both"}
Returned == Called /\ result.status = "ok"

\* The 2-D Euclidean distance between the two endpoints of the call.
TrailLength ==
    Sqrt((trail_end[1] - trail_start[1]) * (trail_end[1] - trail_start[1])
         + (trail_end[2] - trail_start[2]) * (trail_end[2] - trail_start[2]))

InGrid(p) == p[1] >= 0 /\ p[1] <= N_i * Scale /\ p[2] >= 0 /\ p[2] <= N_j * Scale

\* The returned (pixel i, pixel j, chord length) triples.
Chords(r) == {<<r.ii[n], r.jj[n], r.lengths[n]>> : n \in 1..Len(r.ii)}

NoPixelTwice(r) ==
    \A k, m \in 1..Len(r.ii) : (r.ii[k] = r.ii[m] /\ r.jj[k] = r.jj[m]) => k = m

\* C1: for endpoints inside [0, N_i] x [0, N_j], the returned chord lengths sum
\* to the Euclidean distance between start and end (up to the rounding of the
\* fixed-point square roots, less than one unit of 1 / Scale pixel per term).
C1_LengthConservation ==
    (Returned /\ InGrid(trail_start) /\ InGrid(trail_end))
        => /\ Len(result.lengths) = Len(result.ii)
           /\ Abs(SeqSum(result.lengths) - TrailLength) <= Len(result.lengths)

\* The part of the segment [lo, hi] of one axis that lies in pixel p of that axis.
Overlap(lo, hi, p) == Min(hi, (p + 1) * Scale) - Max(lo, p * Scale)

\* The exact partition of an axis-aligned trail into per-pixel chords.
AxisChords(s, e) ==
    IF s[1] = e[1]
    THEN {<<Floor(s[1]), p, Overlap(Min(s[2], e[2]), Max(s[2], e[2]), p)>> :
            p \in {q \in Floor(Min(s[2], e[2]))..Floor(Max(s[2], e[2])) :
                     Overlap(Min(s[2], e[2]), Max(s[2], e[2]), q) > 0}}
    ELSE {<<p, Floor(s[2]), Overlap(Min(s[1], e[1]), Max(s[1], e[1]), p)>> :
            p \in {q \in Floor(Min(s[1], e[1]))..Floor(Max(s[1], e[1])) :
                     Overlap(Min(s[1], e[1]), Max(s[1], e[1]), q) > 0}}

AxisAligned ==
    /\ trail_start # trail_end
    /\ trail_start[1] = trail_end[1] \/ trail_start[2] = trail_end[2]

\* C2: for an axis-aligned trail inside the grid, what traverse returns is
\* exactly the pixels the trail passes through, each with the length of the
\* part of the trail inside it; (2.0, 3.5) -> (2.0, 7.5) gives
\* (2,3),(2,4),(2,5),(2,6),(2,7) with chords 0.5, 1, 1, 1, 0.5.
C2_AxisAlignedPartition ==
    (Returned /\ AxisAligned /\ InGrid(trail_start) /\ InGrid(trail_end))
        => /\ Len(result.lengths) = Len(result.ii)
           /\ NoPixelTwice(result)
           /\ Chords(result) = AxisChords(trail_start, trail_end)

\* C3: the result of traverse contains no pixel twice.
C3_PixelUniqueness == Returned => NoPixelTwice(result)

\* p lies in [0, N_i) x [0, N_j).
OnDetector(p) == p[1] >= 0 /\ p[1] < N_i * Scale /\ p[2] >= 0 /\ p[2] < N_j * Scale

\* One endpoint on the detector, the other one off it.
CrossesOutside ==
    \/ OnDetector(trail_start) /\ ~OnDetector(trail_end)
    \/ OnDetector(trail_end) /\ ~OnDetector(trail_start)

\* C4: for a trail that crosses outside [0, N) on either axis, every returned
\* pixel index is in bounds and the chord lengths sum to strictly less than the
\* full distance between start and end.
C4_BoundaryClipping ==
    (Returned /\ CrossesOutside)
        => /\ \A n \in 1..Len(result.ii) :
                /\ 0 <= result.ii[n] /\ result.ii[n] < N_i
                /\ 0 <= result.jj[n] /\ result.jj[n] < N_j
           /\ SeqSum(result.lengths) < TrailLength

SurvivingCrossings == Crossings(trail_start, trail_end, N_i, N_j)

LastOnGridPoint ==
    /\ Len(SurvivingCrossings) >= 2
    /\ LET last == SurvivingCrossings[Len(SurvivingCrossings)]
       IN last[1] % Scale = 0 /\ last[2] % Scale = 0

\* C8: when at least two crossings survive and the last one is an integer grid
\* point, traverse returns normally without the last crossing: one chord per
\* remaining pixel, the distance between consecutive crossings.
C8_TrailingSegmentDropped ==
    (Called /\ InGrid(trail_start) /\ InGrid(trail_end) /\ LastOnGridPoint)
        => /\ result.status = "ok"
           /\ Len(result.ii) = Len(SurvivingCrossings) - 1
           /\ result.lengths = Lengths(Diff(SurvivingCrossings))

\* C9: traverse(a, b) and traverse(b, a) return the same pixels with the same
\* chord lengths, also when a and b have the same i coordinate.
C9_EndpointSwap ==
    (pc = "both" /\ InGrid(trail_start) /\ InGrid(trail_end))
        => result = result_swapped

(***************************************************************************)
(* create_sampler(pdf, x).  pdf_y is pdf(x) on a grid of GridLen points.   *)
(* A float is a record: nan, or the quotient num / den.                    *)
(***************************************************************************)
NaN == [nan |-> TRUE, num |-> 0, den |-> 1]
Quot(a, b) == [nan |-> FALSE, num |-> a, den |-> b]

\* np.cumsum(y)
RECURSIVE CumSum(_)
CumSum(y) ==
    IF y = <<>> THEN <<>>
    ELSE LET front == CumSum(SubSeq(y, 1, Len(y) - 1))
         IN Append(front, (IF front = <<>> THEN 0 ELSE front[Len(front)]) + y[Len(y)])

\* cdf_y.max()
RECURSIVE SeqMax(_)
SeqMax(q) == IF Len(q) = 1 THEN q[1] ELSE Max(Head(q), SeqMax(Tail(q)))

\* Float division a / b of the in-place "/=": 0 / 0 is nan (numpy warns and
\* goes on); b is never 0 otherwise, the densities being nonnegative.
FloatDiv(a, b) == IF b = 0 THEN NaN ELSE Quot(a, b)

\* scipy's interp1d(cdf_y, x), kind linear: the constructor sorts the knots and
\* checks the arrays' shapes; it does not look at the values of the knots.
interp1d(cdf_y, n) ==
    IF Len(cdf_y) = n /\ n >= 1
    THEN [status |-> "sampler", cdf_y |-> cdf_y]
    ELSE [status |-> "ValueError", cdf_y |-> <<>>]

create_sampler(y) ==
    LET shifted == [n \in 1..Len(y) |-> CumSum(y)[n] - y[1]]
        top == SeqMax(shifted)
        cdf_y == [n \in 1..Len(y) |-> FloatDiv(shifted[n], top)]
    IN interp1d(cdf_y, Len(y))

InitSampler ==
    /\ pdf_y \in [1..GridLen -> 0..MaxY]
    /\ sampler = NoSampler
    /\ pc = "build"
    /\ IdleTraverse
    /\ IdleImage

CreateSampler ==
    /\ pc = "build"
    /\ sampler' = create_sampler(pdf_y)
    /\ pc' = "built"
    /\ UNCHANGED <<trail_start, trail_end, N_i, N_j, result, result_swapped, pdf_y,
                   image, im1, flux, time, N_samples, todo, calls, ev, trail, draws>>

SpecSampler == InitSampler /\ [][CreateSampler]_vars

\* C7: create_sampler called with a density that is zero at every grid point
\* fails with an error instead of returning a sampler.
C7_DegenerateDensityFails ==
    (pc = "built" /\ \A n \in 1..GridLen : pdf_y[n] = 0)
        => sampler.status \notin {"sampler", "none"}

(***************************************************************************)
(* simulate_crs(image, time, flux).                                        *)
(***************************************************************************)
Pixels == (0..(ImgN_i - 1)) \X (0..(ImgN_j - 1))

ExposureTimes == {1, 3}
Fluxes == {0, DefaultFlux}

\* A Poisson draw that does not look at its mean.
PoissonAnyMean(lam, most) == 0..most

\* rng.poisson(lam): 0 when the mean is 0, any count otherwise (counts up to
\* `most` in the model).
Poisson(lam, most) == IF lam = 0 THEN {0} ELSE 0..most

\* ndarray.clip(lo, hi) of one coordinate, lo and hi in pixels.
Clip(x, lo, hi) == Max(lo * Scale, Min(hi * Scale, x))

\* cr_i0, cr_j0 = rng.random() * (N_i, N_j): points of [0, N_i) x [0, N_j).
Starts == {<<a * Half, b * Half>> : a \in 0..(2 * ImgN_i - 1), b \in 0..(2 * ImgN_j - 1)}

\* cr_length / pixel_size times (cos, sin) of the angle: a vector at least
\* min_cr_len / pixel_size long.
Displacements ==
    {<<h[1] * Half, h[2] * Half>> :
        h \in {g \in (-MaxDisp..MaxDisp) \X (-MaxDisp..MaxDisp) :
                 (g[1] * g[1] + g[2] * g[2]) * PixelSize * PixelSize
                     >= 4 * Min_cr_len * Min_cr_len}}

\* One drawn event <<(i0, j0), (i1, j1), dEdx>>: the end point is clipped into
\* [1, N - 1] on each axis.
Events ==
    {<<st, <<Clip(st[1] + d[1], 1, ImgN_i - 1), Clip(st[2] + d[2], 1, ImgN_j - 1)>>, e>> :
        st \in Starts, d \in Displacements, e \in {Min_dEdx}}

\* cr_dEdx * pixel_size / gain
CountsPerPix(dEdx) == (dEdx * PixelSize * 10) \div GainTenths

\* ((pixel_depth / pixel_size) ** 2 + length_2d ** 2) ** 0.5
Length3d(length_2d) ==
    Sqrt(((PixelDepth * Scale) \div PixelSize) * ((PixelDepth * Scale) \div PixelSize)
         + length_2d * length_2d)

\* The arrays rng.poisson(counts_per_pix * length_3d) can return.
PoissonArrays(counts_per_pix, lengths) ==
    LET n == Len(lengths)
    IN {d \in [1..n -> 0..MaxDraw] :
          \A k \in 1..n : d[k] \in Poisson(counts_per_pix * Length3d(lengths[k]), MaxDraw)}

\* Last position of the index arrays that names pixel p (0 if none does).
LastEntry(ii, jj, p) ==
    LET hits == {n \in 1..Len(ii) : <<ii[n], jj[n]>> = p}
    IN IF hits = {} THEN 0 ELSE CHOOSE n \in hits : \A m \in hits : m <= n

\* image[ii, jj] = d: the draws overwrite the pixels instead of adding to them.
FancyAssign(img, ii, jj, d) ==
    [p \in DOMAIN img |->
        LET n == LastEntry(ii, jj, p)
        IN IF n = 0 THEN img[p] ELSE (IF Len(d) = 1 THEN d[1] ELSE d[n])]

\* image[ii, jj] += d.  numpy reads image[ii, jj], adds d, and assigns the sums
\* back entry by entry: a pixel named by several entries gets the sum of its
\* old value and the draw of the last of them.  A length-1 d broadcasts.
FancyAdd(img, ii, jj, d) ==
    [p \in DOMAIN img |->
        LET n == LastEntry(ii, jj, p)
        IN IF n = 0 THEN img[p] ELSE img[p] + (IF Len(d) = 1 THEN d[1] ELSE d[n])]

IndexInRange(ii, jj) == \A n \in 1..Len(ii) : <<ii[n], jj[n]>> \in Pixels

\* np.any((jj == 76) & (ii == 54))
HitsDebugPixel(ii, jj) == \E n \in 1..Len(ii) : jj[n] = DebugJ /\ ii[n] = DebugI

\* What one pass of the loop body computes before it touches the image, for
\* event e: the result of traverse([i0, j0], [i1, j1]) and, if it returned,
\* one of the arrays rng.poisson can return.
BodiesOf(e) ==
    LET t == traverse(e[1], e[2], DefaultN, DefaultN)
    IN {[ev |-> e, trail |-> t, draws |-> d] :
          d \in IF t.status = "ok" THEN PoissonArrays(CountsPerPix(e[3]), t.lengths)
                ELSE {<<>>}}

Bodies == UNION {BodiesOf(e) : e \in Events}

\* image = np.zeros(shape)
InitialImages == {[p \in Pixels |-> 0]}

Init ==
    /\ image \in InitialImages
    /\ im1 = <<>>
    /\ flux = 0 /\ time = 0 /\ N_samples = 0 /\ todo = 0 /\ calls = 0
    /\ ev = <<>> /\ trail = NoResult /\ draws = <<>>
    /\ pc = "idle"
    /\ IdleSampler
    /\ IdleTraverse

\* Entry of simulate_crs up to the loop: the event count is drawn and the
\* image copied.  The N event parameter tuples drawn here are independent of
\* each other and of the image; the model resolves each when the loop
\* reaches it.  With N = 0 the loop body never runs.
Call ==
    /\ pc = "idle"
    /\ calls < MaxCalls
    /\ \E f \in Fluxes, t \in ExposureTimes :
          /\ flux' = f
          /\ time' = t
          /\ N_samples' \in Poisson(f * AreaMilli * t, MaxEvents)
    /\ todo' = N_samples'
    /\ im1' = image
    /\ calls' = calls + 1
    /\ pc' = IF N_samples' = 0 THEN "return" ELSE "loop"
    /\ ev' = <<>> /\ trail' = NoResult /\ draws' = <<>>
    /\ UNCHANGED <<image, trail_start, trail_end, N_i, N_j, result, result_swapped,
                   pdf_y, sampler>>

\* One pass of the loop body.  traverse is called without the image's shape,
\* so with N_i = N_j = 4096.  An exception ends the call where it stands
\* (pc "raised"); the breakpoint stops it (pc "pdb").
LoopBody ==
    /\ pc = "loop"
    /\ todo > 0
    /\ \E b \in Bodies :
          /\ ev' = b.ev
          /\ trail' = b.trail
          /\ draws' = b.draws
    /\ IF trail'.status # "ok"
       THEN /\ image' = image
            /\ todo' = todo
            /\ pc' = "raised"
       ELSE IF IndexInRange(trail'.ii, trail'.jj)
          THEN /\ image' = FancyAdd(image, trail'.ii, trail'.jj, draws')
               /\ todo' = todo - 1
               /\ pc' = IF HitsDebugPixel(trail'.ii, trail'.jj) THEN "pdb"
                        ELSE IF todo' = 0 THEN "return" ELSE "loop"
          ELSE /\ image' = image
               /\ todo' = todo
               /\ pc' = "raised"
    /\ UNCHANGED <<im1, flux, time, N_samples, calls, trail_start, trail_end, N_i, N_j,
                   result, result_swapped, pdf_y, sampler>>

\* The call is over, by "return image" or by the exception reaching the
\* caller: its arguments and locals are gone, the caller's image stays as the
\* call left it.
Return ==
    /\ pc \in {"return", "raised"}
    /\ pc' = "idle"
    /\ im1' = <<>> /\ flux' = 0 /\ time' = 0 /\ N_samples' = 0 /\ todo' = 0
    /\ ev' = <<>> /\ trail' = NoResult /\ draws' = <<>>
    /\ UNCHANGED <<image, calls, trail_start, trail_end,
                   N_i, N_j, result, result_swapped, pdf_y, sampler>>

Next == Call \/ LoopBody \/ Return

Spec == Init /\ [][Next]_vars

(***************************************************************************)
(* Claims about simulate_crs, checked under Spec.                          *)
(***************************************************************************)
InCall == pc # "idle"

\* C5: starting from an image with no negative entries, at every point of every
\* simulate_crs call each pixel is at least its value when the call began (im1,
\* the copy the call takes), and no pixel is ever negative.
C5_ImageNeverDecreases ==
    /\ \A p \in Pixels : image[p] >= 0
    /\ InCall => \A p \in Pixels : image[p] >= im1[p]

\* A later call has added counts to an image that already held counts.
C5_Witness ==
    /\ pc = "return"
    /\ calls >= 2
    /\ \E p \in Pixels : im1[p] > 0
    /\ \E p \in Pixels : image[p] > im1[p]

\* C6: a call with flux = 0 draws the event count 0 and leaves every pixel as
\* it was when the call began.
C6_ZeroFluxNoChange ==
    (InCall /\ flux = 0) => (N_samples = 0 /\ pc = "return" /\ image = im1)

\* A call with flux = 0 on an image that holds counts has reached its return.
C6_Witness ==
    /\ pc = "return"
    /\ flux = 0
    /\ time > 0
    /\ \E p \in Pixels : image[p] > 0

\* The sum of the draws of all entries of the trail that name pixel p.
RECURSIVE DrawSum(_, _, _, _)
DrawSum(ii, jj, d, p) ==
    IF ii = <<>> THEN 0
    ELSE (IF <<Head(ii), Head(jj)>> = p THEN Head(d) ELSE 0)
         + DrawSum(Tail(ii), Tail(jj), Tail(d), p)

\* C10: every entry of an event's trail contributes its own draw: once the
\* first event of a call is processed, each pixel is its value at the start of
\* the call plus the sum of the draws of all trail entries that name it.
C10_EveryDrawCounted ==
    (InCall /\ N_samples > 0 /\ todo = N_samples - 1 /\ trail.status = "ok"
        /\ Len(draws) = Len(trail.ii))
        => \A p \in Pixels :
              image[p] = im1[p] + DrawSum(trail.ii, trail.jj, draws, p)

====
